---- MODULE Spec2Model ----
(***************************************************************************)
(* Model of analyze() in analyze_stocks.py: the per-company pipeline that  *)
(* pivots the raw facts of stock_data_raw.csv into a panel, resolves one   *)
(* price per fiscal year from three sources, recomputes PER and PBR from   *)
(* the resolved price, classifies the company and emits one output row per *)
(* target metric.                                                          *)
(*                                                                         *)
(* Numbers.  A pandas cell is a float64.  Cells are modelled as extended   *)
(* rationals <<n, d>> in lowest terms: d > 0 is the number n/d, <<0, 0>>   *)
(* is NaN, <<1, 0>> and <<-1, 0>> are +inf and -inf.  Products, quotients  *)
(* and comparisons of cells are exact; the inputs are short decimal texts, *)
(* for which float64 rounding does not change any comparison made on the   *)
(* cells.  The growth rate is the one place where rounding decides the     *)
(* outcome (a fifth root followed by "- 1"), so calculate_cagr is modelled *)
(* on float64 values with arbitrary-precision naturals (see Big* below).   *)
(***************************************************************************)
EXTENDS Integers, Sequences, FiniteSets, Bags, TLC

(***************************************************************************)
(* Bound of the model: the number of (Metric, Year) cells of the company   *)
(* that carry a non-null Value in the CSV.                                 *)
(***************************************************************************)
MaxFacts == 3

----------------------------------------------------------------------------
(* Extended rationals: the float64 cells of the panel.                      *)

NaN == <<0, 0>>

Inf == <<1, 0>>

NegInf == <<-1, 0>>

Abs(n) == IF n < 0 THEN -n ELSE n

RECURSIVE GCD(_, _)
GCD(a, b) == IF b = 0 THEN a ELSE GCD(b, a % b)

\* the number n/d in lowest terms, d > 0
Norm(n, d) ==
    IF n = 0 THEN <<0, 1>>
    ELSE LET g == GCD(Abs(n), d) IN <<n \div g, d \div g>>

Num(n) == <<n, 1>>

Sign(n) == IF n > 0 THEN 1 ELSE IF n < 0 THEN -1 ELSE 0

\* pd.notna / pd.isna on a float cell
notna(v) == v # NaN

isna(v) == v = NaN

IsInf(v) == v[2] = 0 /\ v[1] # 0

\* float multiplication: NaN propagates, inf * 0 is NaN
Mul(a, b) ==
    IF isna(a) \/ isna(b) THEN NaN
    ELSE IF IsInf(a) \/ IsInf(b)
         THEN <<Sign(a[1]) * Sign(b[1]), 0>>
         ELSE Norm(a[1] * b[1], a[2] * b[2])

\* float division: x/0 is +-inf, 0/0 and inf/inf are NaN
Div(a, b) ==
    IF isna(a) \/ isna(b) THEN NaN
    ELSE IF IsInf(b) THEN (IF IsInf(a) THEN NaN ELSE <<0, 1>>)
    ELSE IF IsInf(a) THEN <<a[1] * (IF b[1] < 0 THEN -1 ELSE 1), 0>>
    ELSE IF b[1] = 0 THEN <<Sign(a[1]), 0>>
    ELSE Norm(Sign(b[1]) * a[1] * b[2], a[2] * Abs(b[1]))

\* float "<": false as soon as one side is NaN
Lt(a, b) == notna(a) /\ notna(b) /\ a[1] * b[2] < b[1] * a[2]

----------------------------------------------------------------------------
(* Arbitrary-precision naturals: little-endian sequences of base-10000      *)
(* digits without a leading zero digit; <<>> is zero.  They carry the       *)
(* 53-bit significands of float64 values and the market capitalisation.    *)

RECURSIVE BigOfNat(_)
BigOfNat(n) == IF n = 0 THEN <<>> ELSE <<n % 10000>> \o BigOfNat(n \div 10000)

RECURSIVE BigToNat(_)
BigToNat(a) == IF a = <<>> THEN 0 ELSE a[1] + 10000 * BigToNat(Tail(a))

\* digit k of a, 0 beyond its length
Dig(a, k) == IF k \in 1..Len(a) THEN a[k] ELSE 0

\* a without its leading zero digits
BigTrim(a) ==
    LET nz == {k \in 1..Len(a) : a[k] # 0}
    IN  IF nz = {} THEN <<>>
        ELSE SubSeq(a, 1, CHOOSE k \in nz : \A j \in nz : j <= k)

\* the carry (or borrow, when negative) out of position k of a sequence of
\* integer digit sums
RECURSIVE Carry(_, _)
Carry(seq, k) ==
    IF k = 0 THEN 0 ELSE (Dig(seq, k) + Carry(seq, k - 1)) \div 10000

\* the natural whose digit sums are seq0, carries propagated.  (Here and
\* below an argument x0 is bound once, as x, before it is used.)
BigNorm(seq0) ==
    CHOOSE r \in {BigTrim([k \in 1..(Len(seq) + 2) |->
                              (Dig(seq, k) + Carry(seq, k - 1)) % 10000]) :
                  seq \in {seq0}} : TRUE

BigAdd(a0, b0) ==
    CHOOSE r \in {BigNorm([k \in 1..(IF Len(a) > Len(b) THEN Len(a) ELSE Len(b))
                              |-> Dig(a, k) + Dig(b, k)]) :
                  a \in {a0}, b \in {b0}} : TRUE

\* a - b for a >= b
BigSub(a0, b0) ==
    CHOOSE r \in {BigNorm([k \in 1..Len(a) |-> a[k] - Dig(b, k)]) :
                  a \in {a0}, b \in {b0}} : TRUE

\* a * k for a small k (k * 10000 stays below 2^31)
BigMulSmall(a0, k) ==
    CHOOSE r \in {BigNorm([i \in 1..Len(a) |-> a[i] * k]) : a \in {a0}} : TRUE

\* a * b for a of at most five digits (a < 10^20): digit k of the product
\* sums at most five digit products before the carries
BigMul(a0, b0) ==
    CHOOSE r \in
        {BigNorm([k \in 1..(Len(a) + Len(b)) |->
                     Dig(a, 1) * Dig(b, k) + Dig(a, 2) * Dig(b, k - 1)
                         + Dig(a, 3) * Dig(b, k - 2) + Dig(a, 4) * Dig(b, k - 3)
                         + Dig(a, 5) * Dig(b, k - 4)]) :
         a \in {a0}, b \in {b0}} : TRUE

RECURSIVE BigPow(_, _)
BigPow(a, n) == IF n = 0 THEN <<1>> ELSE BigMul(a, BigPow(a, n - 1))

\* a < b: by length, then by the most significant digit that differs
BigLt(a0, b0) ==
    \E a \in {a0}, b \in {b0} :
        IF Len(a) # Len(b) THEN Len(a) < Len(b)
        ELSE LET df == {k \in 1..Len(a) : a[k] # b[k]}
             IN  df # {} /\ LET top == CHOOSE k \in df : \A j \in df : j <= k
                            IN  a[top] < b[top]

BigLeq(a, b) == ~BigLt(b, a)

\* the remainder of (digits k and above of a) divided by a small d
RECURSIVE RemFrom(_, _, _)
RemFrom(a, d, k) ==
    IF k > Len(a) THEN 0 ELSE (RemFrom(a, d, k + 1) * 10000 + a[k]) % d

\* <<floor(a / d), a mod d>> for a small d (d * 10000 stays below 2^31)
BigDivRem(a0, d) ==
    CHOOSE r \in {<<BigTrim([k \in 1..Len(a) |->
                               (RemFrom(a, d, k + 1) * 10000 + a[k]) \div d]),
                    RemFrom(a, d, 1)>> : a \in {a0}} : TRUE

RECURSIVE BigPow2(_)
BigPow2(j) ==
    IF j = 0 THEN <<1>>
    ELSE IF j >= 13 THEN BigMulSmall(BigPow2(j - 13), 8192)
    ELSE BigMulSmall(BigPow2(j - 1), 2)

\* a * 2^j for a of at most five digits
BigShl(a, j) == BigMul(a, BigPow2(j))

\* floor(a / 2^j)
RECURSIVE BigShr(_, _)
BigShr(a, j) ==
    IF j = 0 THEN a
    ELSE IF j >= 13 THEN BigShr(BigDivRem(a, 8192)[1], j - 13)
    ELSE BigShr(BigDivRem(a, 2)[1], j - 1)

BigIsOdd(a) == a # <<>> /\ a[1] % 2 = 1

\* a / 2^j rounded to the nearest natural, ties to even
BigShrRNE(a0, j) ==
    IF j = 0 THEN a0
    ELSE CHOOSE r \in
             {LET rem  == BigSub(a, BigShl(fl, j))
                  half == BigPow2(j - 1)
              IN  IF BigLt(half, rem) \/ (rem = half /\ BigIsOdd(fl))
                  THEN BigAdd(fl, <<1>>) ELSE fl :
              a \in {a0}, fl \in {BigShr(a0, j)}} : TRUE

----------------------------------------------------------------------------
(* float64 values of the growth computation: [neg, k, q] is the number      *)
(* (-1)^neg * k * 2^(-q), k a natural of at most 53 bits.                   *)

MkF(neg, k, q) ==
    IF k = <<>> THEN [neg |-> FALSE, k |-> <<>>, q |-> 0]
    ELSE [neg |-> neg, k |-> k, q |-> q]

FZero == MkF(FALSE, <<>>, 0)

\* floor(log2(e / s)) for naturals e, s > 0
RECURSIVE ILog2Up(_, _, _)
ILog2Up(e, s, t) == IF 2 * s <= e THEN ILog2Up(e, 2 * s, t + 1) ELSE t

RECURSIVE ILog2Down(_, _, _)
ILog2Down(e, s, t) == IF e < s THEN ILog2Down(2 * e, s, t - 1) ELSE t

ILog2(e, s) == IF e >= s THEN ILog2Up(e, s, 0) ELSE ILog2Down(e, s, 0)

\* <<floor(num * 2^i / den), (num * 2^i) mod den>> by binary long division,
\* the i bits split in halves (num, den < 2^30)
RECURSIVE DivBits(_, _, _)
DivBits(num, den, i) ==
    IF i = 0 THEN <<BigOfNat(num \div den), num % den>>
    ELSE IF i = 1 THEN <<BigOfNat((2 * num) \div den), (2 * num) % den>>
    ELSE LET h  == i \div 2
             hi == DivBits(num % den, den, h)
             lo == DivBits(hi[2], den, i - h)
         IN  <<BigAdd(BigShl(BigAdd(BigShl(BigOfNat(num \div den), h), hi[1]),
                             i - h),
                      lo[1]),
               lo[2]>>

\* e / s in float64 for naturals 0 < e, s < 2^30: correctly rounded to 53
\* bits, ties to even
fl_div(e, s) ==
    LET t   == ILog2(e, s)
        num == IF t < 0 THEN e * (2 ^ (-t)) ELSE e
        den == IF t < 0 THEN s ELSE s * (2 ^ t)
        qr  == DivBits(num, den, 52)
        up  == 2 * qr[2] > den \/ (2 * qr[2] = den /\ BigIsOdd(qr[1]))
    IN  MkF(FALSE, IF up THEN BigAdd(qr[1], <<1>>) ELSE qr[1], 52 - t)

\* acc with the bits 2^hi .. 2^lo added, from the highest, each bit kept when
\* the n-th power stays at or below target
RECURSIVE RootBits(_, _, _, _, _)
RootBits(acc0, hi, lo, n, target) ==
    CHOOSE d \in
        {IF hi = lo
         THEN LET cand == BigAdd(acc, BigPow2(hi))
              IN  IF BigLeq(BigPow(cand, n), target) THEN cand ELSE acc
         ELSE LET mid == (hi + lo) \div 2
              IN  RootBits(RootBits(acc, hi, mid + 1, n, target), mid, lo, n,
                           target) :
         acc \in {acc0}} : TRUE

\* the largest 53-bit d with (d * 2^(-q))^n <= x, for a natural x * 2^(n*q)
FloorRoot(target0, n) ==
    CHOOSE d \in {RootBits(BigPow2(52), 51, 0, n, target) :
                  target \in {target0}} : TRUE

\* r ** y in float64 for r > 0 and y = 1/n as a float64 (n = 5: y is the
\* float64 0.2 = 1/5 + 1/(5 * 2^54)).  The exact value v = r^y satisfies
\* v^n = r * exp(ln(r) / 2^54); with |ln r| <= L * 0.6932, where L bounds
\* |log2 r|, v^n lies between r and r * (1 +- L * 6932 / (10000 * 2^54)).
\* pow_range is [q, lo, hi]: lo * 2^(-q) and hi * 2^(-q) are the float64
\* values at or just below the two ends of that interval.
pow_range(r, n) ==
    LET t   == IF r.k = BigPow2(53) THEN 53 - r.q ELSE 52 - r.q
        u   == t \div n
        rn  == BigShl(r.k, n * (52 - u) - r.q)
        L   == IF t >= 0 THEN t + 1 ELSE -t
        eps == BigAdd(BigShr(BigMulSmall(BigDivRem(rn, 10000)[1], L * 6932), 54),
                      <<1>>)
        lo  == IF t >= 0 THEN rn ELSE BigSub(rn, eps)
        hi  == IF t >= 0 THEN BigAdd(rn, eps) ELSE rn
    IN  IF BigLt(lo, BigPow(BigPow2(52), n))
        THEN [q |-> 53 - u, lo |-> BigSub(BigPow2(53), <<1>>), hi |-> BigPow2(53)]
        ELSE [q |-> 52 - u, lo |-> FloorRoot(lo, n), hi |-> FloorRoot(hi, n)]

\* The C library's pow is accurate to less than one unit in the last place,
\* not correctly rounded: its result is a float64 next to v, from the one
\* just below the interval (j = 0) to the one just above it (j = pow_spread).
\* Which one is fixed by the build.  pow(1, y) is exactly 1.
pow_spread(r, n) ==
    IF r.k = BigPow2(r.q) THEN 0
    ELSE LET g == pow_range(r, n) IN BigToNat(BigSub(g.hi, g.lo)) + 1

fl_pow_inv(r, n, j) ==
    IF r.k = BigPow2(r.q) THEN MkF(FALSE, BigPow2(52), 52)
    ELSE LET g == pow_range(r, n) IN MkF(FALSE, BigAdd(g.lo, BigOfNat(j)), g.q)

\* p - 1 in float64 for p > 0: exact for p >= 1/2, rounded to 53 bits (ties
\* to even) below
fl_sub_one(p) ==
    LET one == BigPow2(p.q)
    IN  IF BigLeq(one, p.k)
        THEN MkF(FALSE, BigSub(p.k, one), p.q)
        ELSE IF p.q <= 53
        THEN MkF(TRUE, BigSub(one, p.k), p.q)
        ELSE MkF(TRUE, BigShrRNE(BigSub(one, p.k), p.q - 53), 53)

\* a > b on float64 values
fl_gt(a, b) ==
    IF a.neg # b.neg THEN b.neg
    ELSE LET x == BigShl(a.k, b.q)
             y == BigShl(b.k, a.q)
         IN  IF a.neg THEN BigLt(x, y) ELSE BigLt(y, x)

\* CAGR_THRESHOLD = 0.12, the float64 nearest to 12/100
CAGR_THRESHOLD == fl_div(12, 100)

\* x * 100 in float64 (rounded to 53 bits, ties to even)
fl_mul_100(x) ==
    LET p     == BigMulSmall(x.k, 100)
        shift == Cardinality({j \in 1..8 : BigLeq(BigPow2(52 + j), p)})
    IN  MkF(x.neg, BigShrRNE(p, shift), x.q - shift)

----------------------------------------------------------------------------
(* The raw CSV: Value texts, and their coercion to numbers.                 *)

\* years = [str(y) for y in range(2020, 2027)]
years == <<"2020", "2021", "2022", "2023", "2024", "2025", "2026">>

YearSet == {years[i] : i \in 1..Len(years)}

Metrics ==
    {"FixedDatePrice", "CurrentPrice", "BPS", "PBR", "EPS", "PER", "DPS",
     "Shares"}

\* "Shares" stands for the metric label written by fetch_data.py (shares
\* outstanding); the other labels are the source's own.

Digits == {"0", "1", "2", "3", "4", "5", "6", "7", "8", "9"}

DigitVal(c) ==
    CASE c = "0" -> 0 [] c = "1" -> 1 [] c = "2" -> 2 [] c = "3" -> 3
      [] c = "4" -> 4 [] c = "5" -> 5 [] c = "6" -> 6 [] c = "7" -> 7
      [] c = "8" -> 8 [] c = "9" -> 9

RECURSIVE DigitsVal(_)
DigitsVal(s) ==
    IF s = <<>> THEN 0
    ELSE 10 * DigitsVal(SubSeq(s, 1, Len(s) - 1)) + DigitVal(s[Len(s)])

RECURSIVE Pow10(_)
Pow10(k) == IF k = 0 THEN 1 ELSE 10 * Pow10(k - 1)

IsComma(c) == c = ","

NotComma(c) == ~IsComma(c)

\* .str.replace(',', '')
StripCommas(s) == SelectSeq(s, NotComma)

\* pd.to_numeric(text, errors='coerce') on texts of the form [-]d+[.d+];
\* any other text is coerced to NaN
to_numeric(s) ==
    LET neg  == Len(s) > 0 /\ s[1] = "-"
        body == IF neg THEN Tail(s) ELSE s
        dots == {i \in 1..Len(body) : body[i] = "."}
        dot  == IF dots = {} THEN Len(body) + 1 ELSE CHOOSE i \in dots : TRUE
        ip   == SubSeq(body, 1, dot - 1)
        fp   == SubSeq(body, dot + 1, Len(body))
        ok   == /\ Cardinality(dots) <= 1
                /\ Len(ip) > 0
                /\ dots # {} => Len(fp) > 0
                /\ \A i \in 1..Len(ip) : ip[i] \in Digits
                /\ \A i \in 1..Len(fp) : fp[i] \in Digits
    IN  IF ~ok THEN NaN
        ELSE Norm((IF neg THEN -1 ELSE 1) * DigitsVal(ip \o fp), Pow10(Len(fp)))

\* df_pivot[col].astype(str).str.replace(',', '').apply(pd.to_numeric, ...)
Clean(text) == to_numeric(StripCommas(text))

RECURSIVE NatText(_)
NatText(n) ==
    LET c == CHOOSE d \in Digits : DigitVal(d) = n % 10
    IN  IF n < 10 THEN <<c>> ELSE Append(NatText(n \div 10), c)

\* f"{x:.1%}": x * 100 in float64, then its exact value rounded to one
\* decimal (ties to even), then the text
format_pct(x) ==
    LET h      == fl_mul_100(x)
        tenths == BigToNat(BigShrRNE(BigMulSmall(h.k, 10), h.q))
    IN  (IF x.neg THEN <<"-">> ELSE <<>>)
            \o NatText(tenths \div 10) \o <<".">> \o NatText(tenths % 10)
            \o <<"%">>

----------------------------------------------------------------------------
(* Input domain: the cells of the CSV that may carry a fact, and the Value  *)
(* texts of each.  <<>> is the empty CSV field (a null Value).              *)

Labels == YearSet \cup {"Current"}

Null == <<>>

FactCells ==
    ({"FixedDatePrice", "BPS", "PBR", "EPS", "Shares"} \X {"2021", "2026"})
        \cup {<<"CurrentPrice", "Current">>, <<"PER", "2026">>,
              <<"DPS", "2026">>}

Texts(m, l) ==
    CASE m = "FixedDatePrice" /\ l = "2021" -> {<<"8">>}
      [] m = "FixedDatePrice" -> {<<"8">>, <<"5", ",", "0", "0", "0">>}
      [] m = "CurrentPrice"   -> {<<"4">>}
      [] m = "BPS" /\ l = "2021" -> {<<"5">>}
      [] m = "BPS"            -> {<<"0">>, <<"5">>}
      [] m = "PBR" /\ l = "2021" -> {<<"2">>}
      [] m = "PBR"            -> {<<"0", ".", "5">>, <<"0", ".", "8">>}
      [] m = "EPS" /\ l = "2021" ->
             {<<"0">>, <<"1", ",", "0", "0", "0">>,
              <<"9", "7", "6", "5", "6", "2", "5">>}
      [] m = "EPS"            ->
             {<<"-", "1">>, <<"2", ",", "0", "0", "0">>,
              <<"1", "7", "2", "1", "0", "3", "6", "8">>}
      [] m = "PER"            -> {<<"-">>, <<"8">>}
      [] m = "DPS"            -> {<<"1", "0", "0">>}
      [] m = "Shares" /\ l = "2021" ->
             {<<"2", ",", "0", "0", "0", ",", "0", "0", "0", ",", "0", "0", "0">>}
      [] m = "Shares"         ->
             {<<"1", ",", "0", "0", "0", ",", "0", "0", "0", ",", "0", "0", "0">>,
              <<"1", "0", "0", "0", "0", "0", "0", "0", "0", "1">>}

----------------------------------------------------------------------------
(* State.                                                                   *)

VARIABLES
    csv,            \* first non-null Value text of each (Metric, Year) cell
    pc,             \* position of analyze() in the company's processing
    group,          \* the company's panel: columns and one row per metric
    price_vals,     \* the resolved price series
    per_2026, pbr_2026, is_undervalued,
    cagr, is_high_growth,
    market_cap_2026, is_large,
    analyzed_rows,  \* the emitted rows
    final_df,       \* the report: the emitted rows, columns reordered
    libm,           \* which neighbouring float64 this build's pow returns
    prev_df         \* the report of the previous run on the same CSV

vars ==
    <<csv, pc, group, price_vals, per_2026, pbr_2026, is_undervalued,
      cagr, is_high_growth, market_cap_2026, is_large, analyzed_rows,
      final_df, libm, prev_df>>

\* group.index, group.columns, group.loc[metric, col]
index(g) == DOMAIN g.rows

columns(g) == g.columns

loc(g, m, c) == g.rows[m][c]

NoGroup == [columns |-> {}, rows |-> <<>>]

NanSeries == [y \in YearSet |-> NaN]

NFacts == Cardinality({c \in Metrics \X Labels : csv[c] # Null})

----------------------------------------------------------------------------
(* 1. Pivot and clean (the Panel Builder).                                  *)

\* aggfunc='first': the first non-null Value of a cell wins
first(old, new) == IF old # Null THEN old ELSE new

\* one more row of the CSV for this company; the file is complete before it
\* is analysed for the first time
ReadFact(m, l, t) ==
    /\ pc = "read"
    /\ prev_df = <<>>
    /\ csv[<<m, l>>] # Null \/ t = Null \/ NFacts < MaxFacts
    /\ csv' = [csv EXCEPT ![<<m, l>>] = first(@, t)]
    /\ UNCHANGED <<pc, group, price_vals, per_2026, pbr_2026, is_undervalued,
                   cagr, is_high_growth, market_cap_2026, is_large,
                   analyzed_rows, final_df, libm, prev_df>>

\* pivot_table(index=[Code, Name, Metric], columns='Year', aggfunc='first'):
\* a metric has a row, and a label a column, iff some fact of it is non-null
pivot_index(c) == {m \in Metrics : \E l \in Labels : c[<<m, l>>] # Null}

pivot_columns(c) == {l \in Labels : \E m \in Metrics : c[<<m, l>>] # Null}

\* a pivot left with the columns of the CSV only
BuildGroup_no_fill(c) ==
    LET cols == pivot_columns(c)
    IN  [columns |-> cols,
         rows    |-> [m \in pivot_index(c) |->
                         [l \in cols |-> Clean(c[<<m, l>>])]]]

\* the cleaned pivot of the company, with every year column present
BuildGroup(c) ==
    LET cols == pivot_columns(c) \cup YearSet
    IN  [columns |-> cols,
         rows    |-> [m \in pivot_index(c) |->
                         [l \in cols |-> Clean(c[<<m, l>>])]]]

\* the rows of an earlier call kept
stale_rows == analyzed_rows

\* analyzed_rows = []
fresh_rows == <<>>

\* the company is a group of df_pivot only if it has at least one row
Pivot ==
    /\ pc = "read"
    /\ pivot_index(csv) # {}
    /\ group' = BuildGroup(csv)
    /\ analyzed_rows' = fresh_rows
    /\ pc' = "tier1"
    /\ UNCHANGED <<csv, price_vals, per_2026, pbr_2026, is_undervalued,
                   cagr, is_high_growth, market_cap_2026, is_large,
                   final_df, libm, prev_df>>

----------------------------------------------------------------------------
(* 2. Price reconciliation: three tiers.                                    *)

\* tier 1: FixedDatePrice, year by year
tier1(g) ==
    [y \in YearSet |->
        IF "FixedDatePrice" \in index(g) /\ y \in columns(g)
               /\ notna(loc(g, "FixedDatePrice", y))
        THEN loc(g, "FixedDatePrice", y)
        ELSE NaN]

\* a tier 2 that takes CurrentPrice for every year still without a price
tier2_all_years(g, pv) ==
    IF "CurrentPrice" \in index(g) /\ "Current" \in columns(g)
           /\ notna(loc(g, "CurrentPrice", "Current"))
    THEN [y \in YearSet |->
             IF isna(pv[y]) THEN loc(g, "CurrentPrice", "Current") ELSE pv[y]]
    ELSE pv

\* tier 2: CurrentPrice, for 2026 only
tier2(g, pv) ==
    IF isna(pv["2026"]) /\ "CurrentPrice" \in index(g)
           /\ "Current" \in columns(g)
           /\ notna(loc(g, "CurrentPrice", "Current"))
    THEN [pv EXCEPT !["2026"] = loc(g, "CurrentPrice", "Current")]
    ELSE pv

\* Series.combine_first: keep a where it is not NaN, take b elsewhere
combine_first(a, b) == [y \in YearSet |-> IF notna(a[y]) THEN a[y] ELSE b[y]]

\* a tier 3 that divides BPS by PBR
tier3_calc_div(bps, pbr) == Div(bps, pbr)

\* calc_price = bps_row * pbr_row
tier3_calc(bps, pbr) == Mul(bps, pbr)

\* a tier 3 whose computed price takes precedence over the resolved one
tier3_overwrite(g, pv) ==
    IF "BPS" \in index(g) /\ "PBR" \in index(g)
    THEN LET calc_price ==
                 [y \in YearSet |->
                     tier3_calc(loc(g, "BPS", y), loc(g, "PBR", y))]
         IN  combine_first(calc_price, pv)
    ELSE pv

\* tier 3: BPS * PBR of the raw rows
tier3(g, pv) ==
    IF "BPS" \in index(g) /\ "PBR" \in index(g)
    THEN LET calc_price ==
                 [y \in YearSet |->
                     tier3_calc(loc(g, "BPS", y), loc(g, "PBR", y))]
         IN  combine_first(pv, calc_price)
    ELSE pv

Tier1 ==
    /\ pc = "tier1"
    /\ price_vals' = tier1(group)
    /\ pc' = "tier2"
    /\ UNCHANGED <<csv, group, per_2026, pbr_2026, is_undervalued,
                   cagr, is_high_growth, market_cap_2026, is_large,
                   analyzed_rows, final_df, libm, prev_df>>

Tier2 ==
    /\ pc = "tier2"
    /\ price_vals' = tier2(group, price_vals)
    /\ pc' = "tier3"
    /\ UNCHANGED <<csv, group, per_2026, pbr_2026, is_undervalued,
                   cagr, is_high_growth, market_cap_2026, is_large,
                   analyzed_rows, final_df, libm, prev_df>>

Tier3 ==
    /\ pc = "tier3"
    /\ price_vals' = tier3(group, price_vals)
    /\ pc' = "per"
    /\ UNCHANGED <<csv, group, per_2026, pbr_2026, is_undervalued,
                   cagr, is_high_growth, market_cap_2026, is_large,
                   analyzed_rows, final_df, libm, prev_df>>

----------------------------------------------------------------------------
(* 3. Ratio recalculation.                                                  *)

\* group.loc[metric] = np.nan when the row does not exist yet
with_row(g, m) ==
    IF m \in index(g) THEN g
    ELSE [g EXCEPT !.rows =
             [k \in index(g) \cup {m} |->
                 IF k = m THEN [c \in columns(g) |-> NaN] ELSE g.rows[k]]]

\* a guard that lets every quotient through
valid_ratio_any(v) == TRUE

\* the guard of the write: pd.notna(v) and abs(v) != np.inf
valid_ratio(v) == notna(v) /\ ~IsInf(v)

\* a recalculation that writes the quotient into the per-share row
recalculate_into_base(g, pv, per_share, ratio) ==
    IF per_share \in index(g)
    THEN LET new == [y \in YearSet |-> Div(pv[y], loc(g, per_share, y))]
             g1  == with_row(g, ratio)
         IN  [g1 EXCEPT !.rows[per_share] =
                 [c \in columns(g1) |->
                     IF c \in YearSet /\ valid_ratio(new[c])
                     THEN new[c] ELSE g1.rows[per_share][c]]]
    ELSE g

\* new = price_vals / per_share row; written year by year where valid
recalculate(g, pv, per_share, ratio) ==
    IF per_share \in index(g)
    THEN LET new == [y \in YearSet |-> Div(pv[y], loc(g, per_share, y))]
             g1  == with_row(g, ratio)
         IN  [g1 EXCEPT !.rows[ratio] =
                 [c \in columns(g1) |->
                     IF c \in YearSet /\ valid_ratio(new[c])
                     THEN new[c] ELSE g1.rows[ratio][c]]]
    ELSE g

RecalcPER ==
    /\ pc = "per"
    /\ group' = recalculate(group, price_vals, "EPS", "PER")
    /\ pc' = "pbr"
    /\ UNCHANGED <<csv, price_vals, per_2026, pbr_2026, is_undervalued,
                   cagr, is_high_growth, market_cap_2026, is_large,
                   analyzed_rows, final_df, libm, prev_df>>

RecalcPBR ==
    /\ pc = "pbr"
    /\ group' = recalculate(group, price_vals, "BPS", "PBR")
    /\ pc' = "price_row"
    /\ UNCHANGED <<csv, price_vals, per_2026, pbr_2026, is_undervalued,
                   cagr, is_high_growth, market_cap_2026, is_large,
                   analyzed_rows, final_df, libm, prev_df>>

\* the PRICE row: the year columns from price_vals, NaN in any other column
price_row(g, pv) ==
    [c \in columns(g) |-> IF c \in YearSet THEN pv[c] ELSE NaN]

\* group = pd.concat([group, price_row.to_frame().T])
AppendPrice ==
    /\ pc = "price_row"
    /\ group' = [group EXCEPT !.rows =
                    [k \in index(group) \cup {"PRICE"} |->
                        IF k = "PRICE" THEN price_row(group, price_vals)
                        ELSE group.rows[k]]]
    /\ pc' = "undervalued"
    /\ UNCHANGED <<csv, price_vals, per_2026, pbr_2026, is_undervalued,
                   cagr, is_high_growth, market_cap_2026, is_large,
                   analyzed_rows, final_df, libm, prev_df>>

----------------------------------------------------------------------------
(* 4. Classification.                                                       *)

PER_LIMIT == Num(8)

PBR_LIMIT == Norm(8, 10)

cell_or_nan(g, m, c) == IF m \in index(g) THEN loc(g, m, c) ELSE NaN

\* limits taken as inclusive
undervalued_inclusive(per, pbr) ==
    notna(per) /\ notna(pbr) /\ ~Lt(PER_LIMIT, per) /\ ~Lt(PBR_LIMIT, pbr)

undervalued(per, pbr) ==
    notna(per) /\ notna(pbr) /\ Lt(per, PER_LIMIT) /\ Lt(pbr, PBR_LIMIT)

Undervalued ==
    /\ pc = "undervalued"
    /\ per_2026' = cell_or_nan(group, "PER", "2026")
    /\ pbr_2026' = cell_or_nan(group, "PBR", "2026")
    /\ is_undervalued' = undervalued(per_2026', pbr_2026')
    /\ pc' = "growth"
    /\ UNCHANGED <<csv, group, price_vals, cagr, is_high_growth,
                   market_cap_2026, is_large, analyzed_rows, final_df, libm,
                   prev_df>>

\* start_val <= 0
Leq0(v) == notna(v) /\ v[1] * (IF v[2] = 0 THEN 1 ELSE v[2]) <= 0

\* does calculate_cagr reach the power?
calls_pow(start_val, end_val) == ~(Leq0(start_val) \/ Leq0(end_val))

\* end_val / start_val in float64, the two values being positive rationals
ratio(start_val, end_val) ==
    fl_div(end_val[1] * start_val[2], end_val[2] * start_val[1])

\* an undefined growth rate reported as -100% instead of 0
calculate_cagr_sentinel(start_val, end_val, n, j) ==
    IF ~calls_pow(start_val, end_val) THEN MkF(TRUE, <<1>>, 0)
    ELSE fl_sub_one(fl_pow_inv(ratio(start_val, end_val), n, j))

\* calculate_cagr(start_val, end_val, years); j is the build's pow
calculate_cagr(start_val, end_val, n, j) ==
    IF ~calls_pow(start_val, end_val) THEN FZero
    ELSE fl_sub_one(fl_pow_inv(ratio(start_val, end_val), n, j))

\* the growth rates of the EPS values of the input domain, computed once
PosEps(l) == {v \in {Clean(t) : t \in Texts("EPS", l)} : ~Leq0(v)}

cagr_table ==
    UNION {{<<a[1], a[2], j, calculate_cagr(a[1], a[2], 5, j)>> :
                j \in 0..pow_spread(ratio(a[1], a[2]), 5)} :
           a \in PosEps("2021") \X PosEps("2026")}

HighGrowth ==
    /\ pc = "growth"
    /\ LET eps_2021 == cell_or_nan(group, "EPS", "2021")
           eps_2026 == cell_or_nan(group, "EPS", "2026")
       IN  IF notna(eps_2021) /\ notna(eps_2026)
           THEN IF calls_pow(eps_2021, eps_2026)
                THEN \E x \in cagr_table :
                        /\ x[1] = eps_2021 /\ x[2] = eps_2026
                        /\ libm \in {-1, x[3]}
                        /\ libm' = x[3]
                        /\ cagr' = x[4]
                ELSE /\ cagr' = calculate_cagr(eps_2021, eps_2026, 5, 0)
                     /\ libm' = libm
           ELSE /\ cagr' = FZero
                /\ libm' = libm
    /\ is_high_growth' = fl_gt(cagr', CAGR_THRESHOLD)
    /\ pc' = "market_cap"
    /\ UNCHANGED <<csv, group, price_vals, per_2026, pbr_2026, is_undervalued,
                   market_cap_2026, is_large, analyzed_rows, final_df,
                   prev_df>>

\* The market capitalisation is a product of two cells, kept exactly as
\* (-1)^neg * num / den with num an arbitrary-precision natural.
ZeroCap == [neg |-> FALSE, num |-> <<>>, den |-> 1]

cap_product(shares, price) ==
    [neg |-> Sign(shares[1]) * Sign(price[1]) < 0,
     num |-> BigMul(BigOfNat(Abs(shares[1])), BigOfNat(Abs(price[1]))),
     den |-> shares[2] * price[2]]

\* market_cap_2026 > limit
cap_gt(cap, limit) == ~cap.neg /\ BigLt(BigMulSmall(limit, cap.den), cap.num)

\* 10_000_000_000_000 and 5_000_000_000_000
CAP_LIMIT_1 == <<0, 0, 0, 10>>

CAP_LIMIT_2 == <<0, 0, 0, 5>>

\* the first defined share count taken instead of the last
ffill_first(row) ==
    LET ds == {i \in 1..Len(years) : notna(row[years[i]])}
    IN  IF ds = {} THEN NaN
        ELSE row[years[CHOOSE i \in ds : \A k \in ds : i <= k]]

\* group.loc[shares metric, years].ffill().iloc[-1]
ffill_last(row) ==
    LET ds == {i \in 1..Len(years) : notna(row[years[i]])}
    IN  IF ds = {} THEN NaN
        ELSE row[years[CHOOSE i \in ds : \A k \in ds : k <= i]]

market_cap(g) ==
    IF "Shares" \in index(g) /\ "PRICE" \in index(g)
    THEN LET last       == ffill_last(g.rows["Shares"])
             shares     == IF isna(last) THEN Num(0) ELSE last
             price_2026 == loc(g, "PRICE", "2026")
         IN  IF notna(price_2026) /\ ~IsInf(price_2026)
             THEN cap_product(shares, price_2026)
             ELSE ZeroCap
    ELSE ZeroCap

\* the second branch of the size test left out
size_bucket_first_limit(cap) ==
    IF cap_gt(cap, CAP_LIMIT_1) THEN "large" ELSE "smallMid"

\* "large" and "smallMid" stand for the two labels of the size column
size_bucket(cap) ==
    IF cap_gt(cap, CAP_LIMIT_1) THEN "large"
    ELSE IF cap_gt(cap, CAP_LIMIT_2) THEN "large"
    ELSE "smallMid"

MarketCap ==
    /\ pc = "market_cap"
    /\ market_cap_2026' = market_cap(group)
    /\ is_large' = size_bucket(market_cap_2026')
    /\ pc' = "fill"
    /\ UNCHANGED <<csv, group, price_vals, per_2026, pbr_2026, is_undervalued,
                   cagr, is_high_growth, analyzed_rows, final_df, libm,
                   prev_df>>

----------------------------------------------------------------------------
(* 5. Row emission.                                                         *)

target_rows == <<"BPS", "DPS", "EPS", "PBR", "PER", "PRICE">>

\* f"{cagr:.1%}" if cagr != 0 else "-"
eps_cagr_text(c) == IF c.k # <<>> THEN format_pct(c) ELSE <<"-">>

\* one row_data; the marker texts stand for the source's marker strings
row_data(g, metric) ==
    [cells       |-> g.rows[metric],
     Name        |-> "name",
     Code        |-> "code",
     metric      |-> metric,
     is_large    |-> is_large,
     pbr_2026    |-> pbr_2026,
     per_2026    |-> per_2026,
     EPS_CAGR    |-> eps_cagr_text(cagr),
     undervalued |-> IF is_undervalued THEN "undervalued" ELSE "-",
     high_growth |-> IF is_high_growth THEN "high_growth" ELSE "-"]

\* a loop that stops at the first metric missing from group.index
emitted_break(g) ==
    LET missing == {i \in 1..Len(target_rows) : target_rows[i] \notin index(g)}
        stop    == IF missing = {} THEN Len(target_rows) + 1
                   ELSE CHOOSE i \in missing : \A k \in missing : i <= k
    IN  [i \in 1..(stop - 1) |-> row_data(g, target_rows[i])]

\* the loop over target_rows: metrics not in group.index are skipped
emitted(g) ==
    LET present(m) == m \in index(g)
        ms         == SelectSeq(target_rows, present)
    IN  [i \in 1..Len(ms) |-> row_data(g, ms[i])]

FillRows ==
    /\ pc = "fill"
    /\ analyzed_rows' = analyzed_rows \o emitted(group)
    /\ pc' = "reorder"
    /\ UNCHANGED <<csv, group, price_vals, per_2026, pbr_2026, is_undervalued,
                   cagr, is_high_growth, market_cap_2026, is_large, final_df,
                   libm, prev_df>>

\* final_df[final_cols]: Name, metric, the seven years, the analysis columns
final_row(r) ==
    [Name        |-> r.Name,
     metric      |-> r.metric,
     cells       |-> [y \in YearSet |-> r.cells[y]],
     is_large    |-> r.is_large,
     pbr_2026    |-> r.pbr_2026,
     per_2026    |-> r.per_2026,
     EPS_CAGR    |-> r.EPS_CAGR,
     undervalued |-> r.undervalued,
     high_growth |-> r.high_growth]

Reorder ==
    /\ pc = "reorder"
    /\ final_df' = [i \in 1..Len(analyzed_rows) |-> final_row(analyzed_rows[i])]
    /\ pc' = "done"
    /\ UNCHANGED <<csv, group, price_vals, per_2026, pbr_2026, is_undervalued,
                   cagr, is_high_growth, market_cap_2026, is_large,
                   analyzed_rows, libm, prev_df>>

\* analyze() is called again on the same CSV
Rerun ==
    /\ pc = "done"
    /\ prev_df = <<>>
    /\ prev_df' = final_df
    /\ pc' = "read"
    /\ UNCHANGED <<csv, group, price_vals, per_2026, pbr_2026, is_undervalued,
                   cagr, is_high_growth, market_cap_2026, is_large,
                   analyzed_rows, final_df, libm>>

----------------------------------------------------------------------------
(* Specifications.                                                          *)

Init ==
    /\ csv = [c \in Metrics \X Labels |-> Null]
    /\ pc = "read"
    /\ group = NoGroup
    /\ price_vals = NanSeries
    /\ per_2026 = NaN
    /\ pbr_2026 = NaN
    /\ is_undervalued = FALSE
    /\ cagr = FZero
    /\ is_high_growth = FALSE
    /\ market_cap_2026 = ZeroCap
    /\ is_large = "smallMid"
    /\ analyzed_rows = <<>>
    /\ final_df = <<>>
    /\ libm = -1
    /\ prev_df = <<>>

Read == \E c \in FactCells : \E t \in Texts(c[1], c[2]) : ReadFact(c[1], c[2], t)

Next ==
    \/ Read
    \/ Pivot
    \/ Tier1
    \/ Tier2
    \/ Tier3
    \/ RecalcPER
    \/ RecalcPBR
    \/ AppendPrice
    \/ Undervalued
    \/ HighGrowth
    \/ MarketCap
    \/ FillRows
    \/ Reorder

Spec == Init /\ [][Next]_vars

NextRerun == Next \/ Rerun

SpecRerun == Init /\ [][NextRerun]_vars

----------------------------------------------------------------------------
(* Properties.                                                              *)

\* positions after price reconciliation, after the recalculation, and after
\* each classification step
Reconciled ==
    {"per", "pbr", "price_row", "undervalued", "growth", "market_cap", "fill",
     "reorder", "done"}

Classified == {"growth", "market_cap", "fill", "reorder", "done"}

Grown == {"market_cap", "fill", "reorder", "done"}

Sized == {"fill", "reorder", "done"}

\* the cell q is the number n / d (d # 0), compared without rounding
SameRatio(q, n, d) ==
    /\ notna(q) /\ ~IsInf(q)
    /\ Sign(q[1]) = Sign(n) * Sign(d)
    /\ BigMul(BigOfNat(Abs(q[1])), BigOfNat(Abs(d)))
           = BigMul(BigOfNat(Abs(n)), BigOfNat(q[2]))

\* the cleaned value of a cell of the CSV
raw(m, l) == Clean(csv[<<m, l>>])

defined(v) == notna(v) /\ ~IsInf(v)

\* C1: price resolution is monotonic across tiers: a year's price that is
\* defined when tier 2 or tier 3 runs is left as it is by that tier; a tier
\* writes only to slots that are still undefined.
LaterTierStep ==
    pc \in {"tier2", "tier3"} =>
        \A y \in YearSet :
            notna(price_vals[y]) => price_vals'[y] = price_vals[y]

C1_PriceMonotonic == [][LaterTierStep]_vars

\* tier 3 has run with a computed price for 2026 that differs from the price
\* tier 1 resolved
C1_Witness ==
    /\ pc = "per"
    /\ defined(raw("FixedDatePrice", "2026"))
    /\ defined(raw("BPS", "2026")) /\ defined(raw("PBR", "2026"))
    /\ ~SameRatio(raw("FixedDatePrice", "2026"),
                  raw("BPS", "2026")[1] * raw("PBR", "2026")[1],
                  raw("BPS", "2026")[2] * raw("PBR", "2026")[2])
    /\ price_vals["2026"] = raw("FixedDatePrice", "2026")

\* C2: recompute-or-retain: the recalculation of PER sets PER[y] to
\* PRICE[y] / EPS[y] when both are defined and EPS[y] is not zero, and leaves
\* PER[y] at its value before the recalculation otherwise (undefined when
\* there was no PER row); the same for PBR with BPS.
RecomputeOrRetain(per_share, target) ==
    \A y \in YearSet :
        LET p   == price_vals[y]
            e   == cell_or_nan(group, per_share, y)
            old == cell_or_nan(group, target, y)
            new == cell_or_nan(group', target, y)
        IN  IF defined(p) /\ defined(e) /\ e[1] # 0
            THEN SameRatio(new, p[1] * e[2], p[2] * e[1])
            ELSE new = old

RecalcStep ==
    /\ pc = "per" => RecomputeOrRetain("EPS", "PER")
    /\ pc = "pbr" => RecomputeOrRetain("BPS", "PBR")

C3_Undervalued ==
    pc \in Classified =>
        (is_undervalued <=>
            /\ "PER" \in index(group) /\ "PBR" \in index(group)
            /\ notna(loc(group, "PER", "2026"))
            /\ notna(loc(group, "PBR", "2026"))
            /\ loc(group, "PER", "2026")[1] < 8 * loc(group, "PER", "2026")[2]
            /\ 10 * loc(group, "PBR", "2026")[1]
                   < 8 * loc(group, "PBR", "2026")[2])

\* a company found undervalued on a recomputed PER
C3_Witness ==
    /\ pc = "done"
    /\ is_undervalued
    /\ loc(group, "PER", "2026") # raw("PER", "2026")

\* C4: when EPS[2021] <= 0, or EPS[2026] <= 0, or either is undefined (also
\* when there is no EPS row), the growth rate is 0 and the company is not
\* high growth; the growth step can always be taken.
NoGrowthCase ==
    LET s == cell_or_nan(group, "EPS", "2021")
        e == cell_or_nan(group, "EPS", "2026")
    IN  isna(s) \/ isna(e) \/ s[1] <= 0 \/ e[1] <= 0

C4_NoGrowth ==
    /\ pc = "growth" => ENABLED HighGrowth
    /\ pc \in Grown /\ NoGrowthCase => cagr = FZero /\ ~is_high_growth

\* the company has a zero EPS[2021] and a positive EPS[2026]
C4_Witness ==
    /\ pc = "done"
    /\ "EPS" \in index(group)
    /\ loc(group, "EPS", "2021") = Num(0)
    /\ Lt(Num(0), loc(group, "EPS", "2026"))
    /\ cagr = FZero /\ ~is_high_growth

\* C5: for EPS[2021] and EPS[2026] both defined and strictly positive,
\* isHighGrowth is true iff the 5-year growth rate strictly exceeds 12%, that
\* is iff EPS[2026] * 100^5 > EPS[2021] * 112^5; a rate exactly at the
\* threshold is not high growth.
AboveThreshold(s, e) ==
    BigLt(BigMul(BigOfNat(s[1] * e[2]), BigPow(BigOfNat(112), 5)),
          BigMul(BigOfNat(e[1] * s[2]), BigPow(BigOfNat(100), 5)))

C5_HighGrowthIffAbove ==
    pc \in Grown =>
        LET s == cell_or_nan(group, "EPS", "2021")
            e == cell_or_nan(group, "EPS", "2026")
        IN  defined(s) /\ defined(e) /\ s[1] > 0 /\ e[1] > 0 =>
                (is_high_growth <=> AboveThreshold(s, e))

\* C6 as stated: the size bucket is 'large' iff marketCap2026 >= 5 * 10^12.
FiveTrillion == BigMul(<<5>>, BigPow(<<10>>, 12))

C6_LargeFromFiveTrillion ==
    pc \in Sized =>
        (is_large = "large" <=>
            /\ ~market_cap_2026.neg
            /\ BigLeq(BigMulSmall(FiveTrillion, market_cap_2026.den),
                      market_cap_2026.num))

\* C6 as amended: the size bucket is 'large' iff marketCap2026 > 5 * 10^12
\* and 'smallMid' otherwise; the two literal thresholds behave as the single
\* threshold 5 * 10^12.
C6_LargeAboveFiveTrillion ==
    pc \in Sized =>
        /\ is_large \in {"large", "smallMid"}
        /\ is_large = "large" <=>
               /\ ~market_cap_2026.neg
               /\ BigLt(BigMulSmall(FiveTrillion, market_cap_2026.den),
                        market_cap_2026.num)

\* a company whose market capitalisation is exactly 5 * 10^12
C6_Witness ==
    /\ pc = "done"
    /\ ~market_cap_2026.neg
    /\ market_cap_2026.num = BigMulSmall(FiveTrillion, market_cap_2026.den)
    /\ is_large = "smallMid"

\* C7: tier 2 applies to 2026 only: after reconciliation PRICE[2026] is the
\* Current value of CurrentPrice when FixedDatePrice[2026] is undefined and
\* that value is defined; the tier 2 step changes no other year, and does not
\* change 2026 when FixedDatePrice[2026] is defined.
Tier2Step ==
    /\ pc = "tier2" =>
           /\ \A y \in YearSet \ {"2026"} : price_vals'[y] = price_vals[y]
           /\ notna(raw("FixedDatePrice", "2026"))
                  => price_vals'["2026"] = price_vals["2026"]
    /\ pc' \in Reconciled
           /\ isna(raw("FixedDatePrice", "2026"))
           /\ notna(raw("CurrentPrice", "Current"))
       => price_vals'["2026"] = raw("CurrentPrice", "Current")

C7_Tier2Only2026 == [][Tier2Step]_vars

\* the current price was taken for 2026 although BPS * PBR gives another
\* price, and 2021 has no price
C7_Witness ==
    /\ pc = "per"
    /\ isna(raw("FixedDatePrice", "2026"))
    /\ notna(raw("CurrentPrice", "Current"))
    /\ defined(raw("BPS", "2026")) /\ defined(raw("PBR", "2026"))
    /\ ~SameRatio(raw("CurrentPrice", "Current"),
                  raw("BPS", "2026")[1] * raw("PBR", "2026")[1],
                  raw("BPS", "2026")[2] * raw("PBR", "2026")[2])
    /\ price_vals["2026"] = raw("CurrentPrice", "Current")
    /\ isna(price_vals["2021"])

\* C8: tier 3 sets every year still undefined after tiers 1 and 2 to
\* BPS[y] * PBR[y] of the raw rows when both are defined, and leaves it
\* undefined when either is undefined or a row is missing.
Tier3Step ==
    pc = "tier3" =>
        \A y \in YearSet :
            isna(price_vals[y]) =>
                IF defined(raw("BPS", y)) /\ defined(raw("PBR", y))
                THEN SameRatio(price_vals'[y],
                               raw("BPS", y)[1] * raw("PBR", y)[1],
                               raw("BPS", y)[2] * raw("PBR", y)[2])
                ELSE isna(price_vals'[y])

C8_Tier3FromRawRatios == [][Tier3Step]_vars

\* tier 3 priced 2021 at 5 * 2 and left 2026 undefined for want of a PBR
C8_Witness ==
    /\ pc = "per"
    /\ isna(raw("FixedDatePrice", "2021"))
    /\ price_vals["2021"] = Num(10)
    /\ defined(raw("BPS", "2026")) /\ isna(raw("PBR", "2026"))
    /\ isna(price_vals["2026"])

\* the number of rows of the report for a metric
RowCount(df, m) == Cardinality({i \in DOMAIN df : df[i].metric = m})

RatioAndBase == {"BPS", "DPS", "EPS", "PBR", "PER"}

\* C9 as stated: a target metric among BPS, DPS, EPS, PBR, PER with no row in
\* the company's input contributes no output row, and each one present in
\* the input contributes exactly one.
C9_RowsFollowInput ==
    pc = "done" =>
        \A m \in RatioAndBase :
            RowCount(final_df, m) = IF m \in pivot_index(csv) THEN 1 ELSE 0

\* C9 as amended: BPS, DPS and EPS contribute exactly one output row when
\* the input has a row of that metric and none otherwise; PER contributes
\* exactly one row when the input has a PER row or an EPS row, PBR when it
\* has a PBR row or a BPS row, and none otherwise.
InPanel(m) ==
    \/ m \in pivot_index(csv)
    \/ m = "PER" /\ "EPS" \in pivot_index(csv)
    \/ m = "PBR" /\ "BPS" \in pivot_index(csv)

C9_RowsFollowPanel ==
    pc = "done" =>
        \A m \in RatioAndBase :
            RowCount(final_df, m) = IF InPanel(m) THEN 1 ELSE 0

\* an input with EPS and DPS but neither BPS, PBR nor PER: the report has an
\* EPS row, a DPS row and a PER row
C9_Witness ==
    /\ pc = "done"
    /\ pivot_index(csv) = {"EPS", "DPS"}
    /\ RowCount(final_df, "PER") = 1
    /\ RowCount(final_df, "DPS") = 1
    /\ RowCount(final_df, "BPS") = 0

\* the rows of a report as a bag
RowBag(df) ==
    [r \in {df[i] : i \in DOMAIN df} |->
        Cardinality({i \in DOMAIN df : df[i] = r})]

GridRow(row) ==
    /\ YearSet \subseteq DOMAIN row
    /\ DOMAIN row \subseteq YearSet \cup {"Current"}
    /\ \A l \in DOMAIN row : isna(row[l]) \/ defined(row[l])

C11_PanelGrid ==
    /\ \A m \in index(group) :
           DOMAIN group.rows[m] = columns(group) /\ GridRow(group.rows[m])
    /\ pc = "tier1" =>
           \A m \in index(group) : \A l \in columns(group) :
               loc(group, m, l) = raw(m, l)

\* a finished panel with a Current slot, a synthesized PER row and the PRICE
\* row
C11_Witness ==
    /\ pc = "done"
    /\ "Current" \in columns(group)
    /\ "PER" \in index(group) \ pivot_index(csv)
    /\ "PRICE" \in index(group)
    /\ notna(loc(group, "CurrentPrice", "Current"))
    /\ \A y \in YearSet : isna(loc(group, "CurrentPrice", y))

\* the years of the input in which the share count is defined
ShareYears == {i \in 1..Len(years) : defined(raw("Shares", years[i]))}

\* the share count at the latest of them, 0 when there is none
LatestShares ==
    IF ShareYears = {} THEN Num(0)
    ELSE raw("Shares", years[CHOOSE i \in ShareYears :
                                 \A k \in ShareYears : k <= i])

\* the market capitalisation is the product of the cells a and b
CapIs(cap, a, b) ==
    /\ cap.neg = (Sign(a[1]) * Sign(b[1]) < 0)
    /\ BigMul(BigOfNat(a[2] * b[2]), cap.num)
           = BigMul(BigOfNat(cap.den),
                    BigMul(BigOfNat(Abs(a[1])), BigOfNat(Abs(b[1]))))

\* C12: shares is the share count of the latest year 2020..2026 in which it
\* is defined, 0 when there is none or no such row; marketCap2026 is
\* shares * PRICE[2026] when PRICE[2026] is defined and 0 otherwise; without
\* a share count or a 2026 price the company is bucketed smallMid.
C12_MarketCap ==
    pc \in Sized =>
        /\ IF defined(price_vals["2026"])
           THEN CapIs(market_cap_2026, LatestShares, price_vals["2026"])
           ELSE market_cap_2026.num = <<>>
        /\ ShareYears = {} \/ isna(price_vals["2026"])
               => market_cap_2026.num = <<>> /\ is_large = "smallMid"

\* the share count changed between 2021 and 2026 and the later one was
\* multiplied by the 2026 price
C12_Witness ==
    /\ pc = "done"
    /\ defined(raw("Shares", "2021"))
    /\ defined(raw("Shares", "2026"))
    /\ raw("Shares", "2021") # raw("Shares", "2026")
    /\ defined(price_vals["2026"])
    /\ CapIs(market_cap_2026, raw("Shares", "2026"), price_vals["2026"])
    /\ market_cap_2026.num # <<>>

Written == {"PER", "PBR", "PRICE"}

\* C13: price reconciliation and ratio recalculation write only the PRICE,
\* PER and PBR rows, and the recalculation leaves the resolved prices alone;
\* classification and row emission change no panel cell; the emitted EPS,
\* BPS and DPS rows hold the coerced raw values of every year and the
\* emitted PRICE row the resolved price series.
FrameStep ==
    /\ pc \in {"tier1", "tier2", "tier3", "per", "pbr", "price_row"} =>
           /\ index(group') \subseteq index(group) \cup Written
           /\ \A m \in index(group) \ Written :
                  m \in index(group') /\ group'.rows[m] = group.rows[m]
    /\ pc \in {"per", "pbr", "price_row"} => price_vals' = price_vals
    /\ pc \in {"undervalued", "growth", "market_cap", "fill", "reorder"} =>
           group' = group /\ price_vals' = price_vals
    /\ pc' = "done" =>
           \A i \in DOMAIN final_df' :
               LET r == final_df'[i]
               IN  /\ r.metric \in {"EPS", "BPS", "DPS"} =>
                          \A y \in YearSet : r.cells[y] = raw(r.metric, y)
                   /\ r.metric = "PRICE" =>
                          \A y \in YearSet : r.cells[y] = price_vals'[y]

C13_Frame == [][FrameStep]_vars

\* a report with an EPS row and a BPS row, whose PER and PBR were both
\* recomputed from a resolved 2026 price
C13_Witness ==
    /\ pc = "done"
    /\ defined(price_vals["2026"])
    /\ defined(raw("EPS", "2026")) /\ raw("EPS", "2026")[1] # 0
    /\ defined(raw("BPS", "2026")) /\ raw("BPS", "2026")[1] # 0
    /\ loc(group, "PER", "2026") # raw("PER", "2026")
    /\ loc(group, "PBR", "2026") # raw("PBR", "2026")
    /\ \E i \in DOMAIN final_df :
           final_df[i].metric = "EPS"
               /\ final_df[i].cells["2026"] = raw("EPS", "2026")
    /\ \E i \in DOMAIN final_df :
           final_df[i].metric = "PRICE"
               /\ final_df[i].cells["2026"] = price_vals["2026"]

====
